---- MODULE Spec2Model ----
(***************************************************************************)
(* A model of yfmcp/server.py: the tool handlers of the Yahoo Finance MCP  *)
(* server.  One invocation runs at a time (each tool call is a single      *)
(* synchronous round trip).  The market-data provider (yfinance) is the    *)
(* environment: every provider call either raises or yields a value drawn  *)
(* from a bounded set, and is recorded in `calls`.                         *)
(***************************************************************************)
EXTENDS Integers, Sequences, FiniteSets, TLC

VARIABLES
    pc,        \* position of the running handler: "idle", a step name, or "done"
    tool,      \* name of the handler invoked last
    args,      \* its arguments
    ret,       \* the value it returned (RetNone while running or after a raise)
    raised,    \* TRUE when the invocation ended with an uncaught exception
    calls,     \* provider calls issued by this invocation, in order
    source,    \* the provider data the invocation was answered from
    info,      \* get_ticker_info: the mapping `info`, after the loop
    start_dt,  \* calculate_profit_loss: local start_dt (day number)
    end_dt,    \* calculate_profit_loss: local end_dt (day number)
    history,   \* calculate_profit_loss: local history (bars in time order)
    results,   \* grouped rankings: local results
    idx        \* grouped rankings: industries the for loop has visited

vars == <<pc, tool, args, ret, raised, calls, source, info,
          start_dt, end_dt, history, results, idx>>

---------------------------------------------------------------------------
(* Bounds of the model *)

MaxEntities == 3   \* longest provider list (ETFs, funds, table rows)
MaxTopN == 3       \* largest requested top_n
MaxItems == 2      \* most fields of a ticker info mapping
MaxDay == 4        \* last day on which the provider has a daily bar

---------------------------------------------------------------------------
(* Python helpers *)

Min(a, b) == IF a < b THEN a ELSE b
Max(a, b) == IF a > b THEN a ELSE b

\* seq[:n]
Slice(seq, n) ==
    IF n >= 0 THEN SubSeq(seq, 1, Min(n, Len(seq)))
              ELSE SubSeq(seq, 1, Max(Len(seq) + n, 0))

RECURSIVE JoinNL(_)
\* "\n".join(lines)
JoinNL(lines) ==
    IF lines = <<>> THEN <<>>
    ELSE IF Len(lines) = 1 THEN Head(lines)
    ELSE Head(lines) \o <<"\n">> \o JoinNL(Tail(lines))

\* Number of lines of a text made by JoinNL (tokens never hold a newline)
LineCount(text) ==
    IF text = <<>> THEN 0
    ELSE 1 + Cardinality({i \in 1..Len(text) : text[i] = "\n"})

---------------------------------------------------------------------------
(* Return values *)

RetNone == [kind |-> "none"]
Str(tokens) == [kind |-> "str", text |-> tokens]
JsonError(tokens) == [kind |-> "json", error |-> tokens]
JsonRecords(rows) == [kind |-> "json_records", rows |-> rows]
JsonList(items) == [kind |-> "json_list", items |-> items]

TopNMessage == Str(<<"top_n must be greater than 0">>)

\* What a handler hands back: a returned value or an uncaught exception,
\* and the provider calls it issued on the way
Return(value, issued) == [value |-> value, raised |-> FALSE, calls |-> issued]
Raise(issued) == [value |-> RetNone, raised |-> TRUE, calls |-> issued]

---------------------------------------------------------------------------
(* Parameter types and provider data *)

Symbols == {"ACME", "BOGUS"}
Sectors == {"technology", "energy"}
TopTypes == {"top_etfs", "top_mutual_funds", "top_companies",
             "top_growth_companies", "top_performing_companies", "top_indices"}
TopNs == (-1)..MaxTopN

\* yfinance.const.SECTOR_INDUSTY_MAPPING[sector], in iteration order
SECTOR_INDUSTY_MAPPING(sector) ==
    IF sector = "technology"
    THEN <<"software-infrastructure", "semiconductors", "consumer-electronics">>
    ELSE <<"oil-gas-drilling", "uranium">>

\* Entity i of a provider list
Entity(i) == [symbol |-> "SYM" \o ToString(i), name |-> "Name " \o ToString(i)]

Entities(ids) == [i \in 1..Len(ids) |-> Entity(ids[i])]

\* Every list of at most MaxEntities distinct entities, in any order
EntityLists ==
    UNION {{s \in [1..n -> 1..MaxEntities] : \A i, j \in 1..n : i # j => s[i] # s[j]}
           : n \in 0..MaxEntities}

\* Outcome of one provider call
ProviderRaises == [kind |-> "raise", rows |-> <<>>]
ProviderNone == [kind |-> "none", rows |-> <<>>]
ProviderData(rows) == [kind |-> "data", rows |-> rows]

\* Sector.top_etfs / Sector.top_mutual_funds: an ordered symbol -> name mapping
MappingOutcomes == {ProviderRaises} \cup {ProviderData(Entities(l)) : l \in EntityLists}
\* Sector.top_companies: a table, or None
TableOutcomes == MappingOutcomes \cup {ProviderNone}
\* Industry.top_growth_companies / Industry.top_performing_companies
IndustryOutcomes ==
    {ProviderRaises, ProviderNone}
        \cup {ProviderData(Entities([i \in 1..n |-> i])) : n \in 0..MaxEntities}

Call(api, arg, outcome) == [api |-> api, arg |-> arg, raised |-> outcome.kind = "raise"]

---------------------------------------------------------------------------
(* Top-entity resolvers.  `outcome` is what the provider answers if asked. *)

\* f"{symbol}: {name}"
FundLine(e) == <<e.symbol, ": ", e.name>>

\* get_top_etfs with the guard written `top_n < 0`
get_top_etfs_guard_below_zero(sector, top_n, outcome) ==
    IF top_n < 0 THEN Return(TopNMessage, <<>>)
    ELSE LET issued == <<Call("Sector.top_etfs", sector, outcome)>>
             result == [i \in 1..Len(outcome.rows) |-> FundLine(outcome.rows[i])]
         IN IF outcome.kind = "raise" THEN Raise(issued)
            ELSE Return(Str(JoinNL(Slice(result, top_n))), issued)

get_top_etfs(sector, top_n, outcome) ==
    IF top_n < 1 THEN Return(TopNMessage, <<>>)
    ELSE LET issued == <<Call("Sector.top_etfs", sector, outcome)>>
             result == [i \in 1..Len(outcome.rows) |-> FundLine(outcome.rows[i])]
         IN IF outcome.kind = "raise" THEN Raise(issued)
            ELSE Return(Str(JoinNL(Slice(result, top_n))), issued)

get_top_mutual_funds(sector, top_n, outcome) ==
    IF top_n < 1 THEN Return(TopNMessage, <<>>)
    ELSE LET issued == <<Call("Sector.top_mutual_funds", sector, outcome)>>
         IN IF outcome.kind = "raise" THEN Raise(issued)
            ELSE Return(Str(JoinNL([i \in 1..Len(outcome.rows) |->
                                        FundLine(outcome.rows[i])])), issued)

\* get_top_companies without its try/except
get_top_companies_unguarded(sector, top_n, outcome) ==
    IF top_n < 1 THEN Return(TopNMessage, <<>>)
    ELSE LET issued == <<Call("Sector.top_companies", sector, outcome)>>
         IN IF outcome.kind = "raise" THEN Raise(issued)
            ELSE IF outcome.kind = "none"
            THEN Return(JsonError(<<"No top companies available for ",
                                    sector, " sector.">>), issued)
            ELSE Return(JsonRecords(Slice(outcome.rows, top_n)), issued)

get_top_companies(sector, top_n, outcome) ==
    IF top_n < 1 THEN Return(TopNMessage, <<>>)
    ELSE LET issued == <<Call("Sector.top_companies", sector, outcome)>>
         IN IF outcome.kind = "raise"
            THEN Return(JsonError(<<"Failed to get top companies for sector '",
                                    sector, "': ", "provider error">>), issued)
            ELSE IF outcome.kind = "none"
            THEN Return(JsonError(<<"No top companies available for ",
                                    sector, " sector.">>), issued)
            ELSE Return(JsonRecords(Slice(outcome.rows, top_n)), issued)

\* The loop body without `.iloc[:top_n]`
GroupedBody_untruncated(key, industry_name, top_n, outcome, res) ==
    IF outcome.kind = "none" THEN res
    ELSE Append(res, [industry |-> industry_name, key |-> key,
                      data |-> JsonRecords(outcome.rows)])

\* One pass of the body of `for industry_name in SECTOR_INDUSTY_MAPPING[sector]`
\* of the grouped rankings, given the provider's answer for that industry:
\* the list `results` after the pass
GroupedBody(key, industry_name, top_n, outcome, res) ==
    IF outcome.kind = "none" THEN res
    ELSE Append(res, [industry |-> industry_name, key |-> key,
                      data |-> JsonRecords(Slice(outcome.rows, top_n))])

\* The locals of an invocation before its handler has set them
NoLocals ==
    /\ info' = <<>>
    /\ start_dt' = 0
    /\ end_dt' = 0
    /\ history' = <<>>
    /\ results' = <<>>
    /\ idx' = 0

Idle == pc = "idle"

\* A handler that runs to its end in one step
Finish(h) ==
    /\ ret' = h.value
    /\ raised' = h.raised
    /\ calls' = h.calls
    /\ pc' = "done"

\* Entry of a grouped ranking: the top_n guard, then results = []
GroupedEntry(top_n, loop) ==
    IF top_n < 1
    THEN Finish(Return(TopNMessage, <<>>)) /\ source' = <<>>
    ELSE /\ pc' = loop
         /\ ret' = RetNone
         /\ raised' = FALSE
         /\ calls' = <<>>
         /\ source' = <<>>

\* The for loop of a grouped ranking, one industry per step, and the return
\* after the last one
GroupedLoop(key) ==
    LET industries == SECTOR_INDUSTY_MAPPING(args.sector) IN
    IF idx >= Len(industries)
    THEN /\ ret' = JsonList(results)
         /\ pc' = "done"
         /\ UNCHANGED <<tool, args, raised, calls, source, info, start_dt,
                        end_dt, history, results, idx>>
    ELSE \E outcome \in IndustryOutcomes :
         /\ calls' = Append(calls, Call("Industry." \o key, industries[idx + 1], outcome))
         /\ source' = Append(source, outcome)
         /\ IF outcome.kind = "raise"
            THEN /\ raised' = TRUE
                 /\ pc' = "done"
                 /\ UNCHANGED <<results, idx>>
            ELSE /\ results' = GroupedBody(key, industries[idx + 1], args.top_n,
                                           outcome, results)
                 /\ idx' = idx + 1
                 /\ UNCHANGED <<raised, pc>>
         /\ UNCHANGED <<tool, args, ret, info, start_dt, end_dt, history>>

NoArgs == [symbol |-> "", sector |-> "", top_type |-> "", top_n |-> 0,
           start_date |-> "", end_date |-> "", search_type |-> ""]

get_top(sector, top_type, top_n) ==
    /\ Idle
    /\ tool' = "get_top"
    /\ args' = [NoArgs EXCEPT !.sector = sector, !.top_type = top_type,
                              !.top_n = top_n]
    /\ NoLocals
    /\ CASE top_type = "top_etfs" ->
              \E outcome \in MappingOutcomes :
                  Finish(get_top_etfs(sector, top_n, outcome)) /\ source' = outcome
         [] top_type = "top_mutual_funds" ->
              \E outcome \in MappingOutcomes :
                  Finish(get_top_mutual_funds(sector, top_n, outcome)) /\ source' = outcome
         [] top_type = "top_companies" ->
              \E outcome \in TableOutcomes :
                  Finish(get_top_companies(sector, top_n, outcome)) /\ source' = outcome
         [] top_type = "top_growth_companies" ->
              GroupedEntry(top_n, "growth_loop")
         [] top_type = "top_performing_companies" ->
              GroupedEntry(top_n, "performing_loop")
         [] OTHER ->
              Finish(Return(Str(<<"Invalid top_type">>), <<>>)) /\ source' = <<>>

get_top_growth_companies ==
    /\ pc = "growth_loop"
    /\ GroupedLoop("top_growth_companies")

get_top_performing_companies ==
    /\ pc = "performing_loop"
    /\ GroupedLoop("top_performing_companies")

---------------------------------------------------------------------------
(* calculate_profit_loss *)

\* Date strings a caller may pass.  Days are numbered from 2024-01-01 = 1; a
\* datetime without a time of day is midnight of its day.
DateStrings == {"2024-01-01", "2024-01-02", "2024-01-03", "2024-01-02T00:00:00",
                "01/02/2024", "tomorrow"}

\* datetime.fromisoformat(s): the day it denotes, or ValueError
fromisoformat(s) ==
    CASE s = "2024-01-01" -> [ok |-> TRUE, day |-> 1]
      [] s = "2024-01-02" -> [ok |-> TRUE, day |-> 2]
      [] s = "2024-01-03" -> [ok |-> TRUE, day |-> 3]
      [] s = "2024-01-02T00:00:00" -> [ok |-> TRUE, day |-> 2]
      [] OTHER -> [ok |-> FALSE, day |-> 0]

\* str(exc) of the ValueError fromisoformat raises
IsoformatError(s) == <<"Invalid isoformat string: '", s, "'">>

\* Closing prices, in cents (rounding=True keeps two decimals)
Closes == {0, 1000, 1200}
NoBar == -1

\* What the provider holds for a symbol: per day a closing price, or no bar.
\* An unknown symbol has no bars at all.
Markets(symbol) ==
    IF symbol = "BOGUS" THEN {[d \in 1..MaxDay |-> NoBar]}
    ELSE [1..MaxDay -> Closes \cup {NoBar}]

RECURSIVE BarsFrom(_, _, _)
BarsFrom(market, day, end) ==
    IF day >= end \/ day > MaxDay THEN <<>>
    ELSE (IF market[day] = NoBar THEN <<>> ELSE <<[day |-> day, Close |-> market[day]]>>)
         \o BarsFrom(market, day + 1, end)

\* Ticker.history(start=, end=, interval="1d"): the daily bars dated from
\* `start` up to but excluding `end`, in time order
ProviderHistory(market, start, end) == BarsFrom(market, Max(start, 1), end)

\* The end bound without the added day
HistoryEnd_same_day(end) == end

\* The end bound handed to the provider: end_dt + timedelta(days=1)
HistoryEnd(end) == end + 1

RECURSIVE GCD(_, _)
GCD(a, b) == IF b = 0 THEN a ELSE GCD(b, a % b)
Abs(a) == IF a < 0 THEN -a ELSE a

\* The number n / d, in lowest terms
Ratio(n, d) ==
    LET g == GCD(Abs(n), Abs(d))
        s == IF d < 0 THEN -1 ELSE 1
    IN [isNone |-> FALSE, num |-> s * (n \div g), den |-> s * (d \div g)]
None == [isNone |-> TRUE, num |-> 0, den |-> 1]

RangeError == JsonError(<<"start_date must be earlier than end_date">>)
NoDataError ==
    JsonError(<<"No historical data available for the given symbol and date range. ",
                "Please verify the symbol and that the dates fall on trading days.">>)

\* ProfitLoss reading iloc[0] for both prices
ProfitLoss_first_bar_twice(symbol, start_date, end_date, hist) ==
    LET start_price == hist[1].Close
        end_price == hist[1].Close
        profit_loss == end_price - start_price
        percent_change == IF start_price # 0
                          THEN Ratio(profit_loss * 100, start_price)
                          ELSE None
    IN [kind |-> "json", symbol |-> symbol, start_date |-> start_date,
        end_date |-> end_date, start_price |-> start_price,
        end_price |-> end_price, profit_loss |-> profit_loss,
        percent_change |-> percent_change]

\* ProfitLoss with percent_change initialised to 0 instead of None
ProfitLoss_zero_percent(symbol, start_date, end_date, hist) ==
    LET start_price == hist[1].Close
        end_price == hist[Len(hist)].Close
        profit_loss == end_price - start_price
        percent_change == IF start_price # 0
                          THEN Ratio(profit_loss * 100, start_price)
                          ELSE Ratio(0, 1)
    IN [kind |-> "json", symbol |-> symbol, start_date |-> start_date,
        end_date |-> end_date, start_price |-> start_price,
        end_price |-> end_price, profit_loss |-> profit_loss,
        percent_change |-> percent_change]

\* The rest of the handler once `history` is not empty
ProfitLoss(symbol, start_date, end_date, hist) ==
    LET start_price == hist[1].Close
        end_price == hist[Len(hist)].Close
        profit_loss == end_price - start_price
        percent_change == IF start_price # 0
                          THEN Ratio(profit_loss * 100, start_price)
                          ELSE None
    IN [kind |-> "json", symbol |-> symbol, start_date |-> start_date,
        end_date |-> end_date, start_price |-> start_price,
        end_price |-> end_price, profit_loss |-> profit_loss,
        percent_change |-> percent_change]

\* A step of the handler that ends it
PLEnd(value, exception) ==
    /\ ret' = value
    /\ raised' = exception
    /\ pc' = "done"

calculate_profit_loss(symbol, start_date, end_date) ==
    /\ Idle
    /\ tool' = "calculate_profit_loss"
    /\ args' = [NoArgs EXCEPT !.symbol = symbol, !.start_date = start_date,
                              !.end_date = end_date]
    /\ pc' = "pl_parse"
    /\ ret' = RetNone
    /\ raised' = FALSE
    /\ calls' = <<>>
    /\ source' = <<>>
    /\ NoLocals

\* try: start_dt = fromisoformat(start_date); end_dt = fromisoformat(end_date)
\* except ValueError: return the format error
pl_parse ==
    /\ pc = "pl_parse"
    /\ LET s == fromisoformat(args.start_date)
           e == fromisoformat(args.end_date)
       IN IF ~s.ok
          THEN /\ PLEnd(JsonError(<<"Invalid date format: ">>
                                  \o IsoformatError(args.start_date)), FALSE)
               /\ UNCHANGED <<start_dt, end_dt>>
          ELSE IF ~e.ok
          THEN /\ PLEnd(JsonError(<<"Invalid date format: ">>
                                  \o IsoformatError(args.end_date)), FALSE)
               /\ start_dt' = s.day
               /\ UNCHANGED end_dt
          ELSE /\ start_dt' = s.day
               /\ end_dt' = e.day
               /\ pc' = "pl_range"
               /\ UNCHANGED <<ret, raised>>
    /\ UNCHANGED <<tool, args, calls, source, info, history, results, idx>>

\* pl_range with the test written `start_dt > end_dt`
pl_range_strict ==
    /\ pc = "pl_range"
    /\ IF start_dt > end_dt
       THEN PLEnd(RangeError, FALSE)
       ELSE pc' = "pl_fetch" /\ UNCHANGED <<ret, raised>>
    /\ UNCHANGED <<tool, args, calls, source, info, start_dt, end_dt, history,
                   results, idx>>

\* if start_dt >= end_dt: return the range error
pl_range ==
    /\ pc = "pl_range"
    /\ IF start_dt >= end_dt
       THEN PLEnd(RangeError, FALSE)
       ELSE pc' = "pl_fetch" /\ UNCHANGED <<ret, raised>>
    /\ UNCHANGED <<tool, args, calls, source, info, start_dt, end_dt, history,
                   results, idx>>

\* history = yf.Ticker(symbol).history(start=start_dt, end=end_dt + 1 day, ...)
pl_fetch ==
    /\ pc = "pl_fetch"
    /\ \/ /\ calls' = Append(calls, Call("Ticker.history", args.symbol, ProviderRaises))
          /\ PLEnd(RetNone, TRUE)
          /\ UNCHANGED <<source, history>>
       \/ \E market \in Markets(args.symbol) :
          /\ calls' = Append(calls, Call("Ticker.history", args.symbol,
                                         ProviderData(<<>>)))
          /\ source' = market
          /\ history' = ProviderHistory(market, start_dt, HistoryEnd(end_dt))
          /\ pc' = "pl_empty"
          /\ UNCHANGED <<ret, raised>>
    /\ UNCHANGED <<tool, args, info, start_dt, end_dt, results, idx>>

\* pl_empty without the `history.empty` test
pl_empty_unchecked ==
    /\ pc = "pl_empty"
    /\ pc' = "pl_compute"
    /\ UNCHANGED <<tool, args, ret, raised, calls, source, info, start_dt, end_dt,
                   history, results, idx>>

\* if history.empty: return the guidance error
pl_empty ==
    /\ pc = "pl_empty"
    /\ IF history = <<>>
       THEN PLEnd(NoDataError, FALSE)
       ELSE pc' = "pl_compute" /\ UNCHANGED <<ret, raised>>
    /\ UNCHANGED <<tool, args, calls, source, info, start_dt, end_dt, history,
                   results, idx>>

\* history.iloc[0], history.iloc[-1] (IndexError on an empty series), the
\* arithmetic and the result object
pl_compute ==
    /\ pc = "pl_compute"
    /\ IF history = <<>>
       THEN PLEnd(RetNone, TRUE)
       ELSE PLEnd(ProfitLoss(args.symbol, args.start_date, args.end_date, history),
                  FALSE)
    /\ UNCHANGED <<tool, args, calls, source, info, start_dt, end_dt, history,
                   results, idx>>

---------------------------------------------------------------------------
(* get_ticker_info *)

\* A key of the info mapping: a str given by its characters, or (isStr FALSE)
\* an int given by its digits
StrKey(chars) == [isStr |-> TRUE, chars |-> chars]
IntKey(digits) == [isStr |-> FALSE, chars |-> digits]

KeyPool ==
    << StrKey(<<"e", "x", "D", "i", "v", "i", "d", "e", "n", "d", "D", "a", "t", "e">>),
       StrKey(<<"S", "T", "A", "R", "T">>),
       StrKey(<<"t", "r", "e", "n", "d">>),
       StrKey(<<"m", "o", "s", "t", "R", "e", "c", "e", "n", "t", "Q", "u", "a", "r", "t", "e", "r">>),
       StrKey(<<"r", "e", "g", "u", "l", "a", "r", "M", "a", "r", "k", "e", "t", "T", "i", "m", "e">>),
       StrKey(<<"t", "i", "m", "e", "Z", "o", "n", "e">>),
       IntKey(<<"1", "2">>) >>

\* A value of the info mapping.  An int too large for the platform's time_t
\* is given by its decimal text instead of num.
IntValue(n) == [type |-> "int", num |-> n, text |-> <<>>]
HugeIntValue(digits) == [type |-> "int", num |-> 0, text |-> <<digits>>]
StrValue(s) == [type |-> "str", num |-> 0, text |-> s]
NoneValue == [type |-> "NoneType", num |-> 0, text |-> <<>>]

ValuePool ==
    << IntValue(1700000000), StrValue(<<"N/A">>), NoneValue,
       HugeIntValue("100000000000000000") >>

Item(k, v) == [key |-> KeyPool[k], value |-> ValuePool[v]]

\* Every info mapping of at most MaxItems fields, as its items in order
InfoMaps ==
    UNION {{[i \in 1..n |-> Item(ks[i], vs[i])] :
               ks \in {s \in [1..n -> 1..Len(KeyPool)] :
                          \A i, j \in 1..n : i # j => s[i] # s[j]},
               vs \in [1..n -> 1..Len(ValuePool)]}
           : n \in 0..MaxItems}

\* The lowercase of each uppercase letter
LowerCase ==
    [c \in {"A", "B", "C", "D", "E", "F", "G", "H", "I", "J", "K", "L", "M",
             "N", "O", "P", "Q", "R", "S", "T", "U", "V", "W", "X", "Y", "Z"} |->
        CASE c = "A" -> "a" [] c = "B" -> "b" [] c = "C" -> "c" [] c = "D" -> "d"
          [] c = "E" -> "e" [] c = "F" -> "f" [] c = "G" -> "g" [] c = "H" -> "h"
          [] c = "I" -> "i" [] c = "J" -> "j" [] c = "K" -> "k" [] c = "L" -> "l"
          [] c = "M" -> "m" [] c = "N" -> "n" [] c = "O" -> "o" [] c = "P" -> "p"
          [] c = "Q" -> "q" [] c = "R" -> "r" [] c = "S" -> "s" [] c = "T" -> "t"
          [] c = "U" -> "u" [] c = "V" -> "v" [] c = "W" -> "w" [] c = "X" -> "x"
          [] c = "Y" -> "y" [] c = "Z" -> "z"]

\* str.lower()
Lower(chars) ==
    [i \in 1..Len(chars) |->
        IF chars[i] \in DOMAIN LowerCase THEN LowerCase[chars[i]] ELSE chars[i]]

\* str.endswith(suffix)
EndsWith(chars, suffix) ==
    /\ Len(suffix) <= Len(chars)
    /\ SubSeq(chars, Len(chars) - Len(suffix) + 1, Len(chars)) = suffix

DateSuffixes ==
    { <<"d", "a", "t", "e">>, <<"s", "t", "a", "r", "t">>, <<"e", "n", "d">>,
      <<"t", "i", "m", "e", "s", "t", "a", "m", "p">>, <<"t", "i", "m", "e">>,
      <<"q", "u", "a", "r", "t", "e", "r">> }

\* key.lower().endswith(("date", "start", "end", "timestamp", "time", "quarter"))
IsDateKey(key) ==
    LET lowered == Lower(key.chars)
    IN \E suffix \in DateSuffixes : EndsWith(lowered, suffix)

\* Whether datetime.fromtimestamp(value) returns rather than raises
Convertible(value) == value.type = "int" /\ value.text = <<>>

Pad2(n) == IF n < 10 THEN "0" \o ToString(n) ELSE ToString(n)

\* datetime.fromtimestamp(ts).strftime("%Y-%m-%d %H:%M:%S"), local time = UTC
Strftime(ts) ==
    LET days == ts \div 86400
        secs == ts % 86400
        z    == days + 719468
        era  == z \div 146097
        doe  == z - era * 146097
        yoe  == (doe - doe \div 1460 + doe \div 36524 - doe \div 146096) \div 365
        doy  == doe - (365 * yoe + yoe \div 4 - yoe \div 100)
        mp   == (5 * doy + 2) \div 153
        d    == doy - (153 * mp + 2) \div 5 + 1
        m    == IF mp < 10 THEN mp + 3 ELSE mp - 9
        y    == yoe + era * 400 + (IF m <= 2 THEN 1 ELSE 0)
    IN <<ToString(y), "-", Pad2(m), "-", Pad2(d), " ", Pad2(secs \div 3600), ":",
         Pad2((secs % 3600) \div 60), ":", Pad2(secs % 60)>>

RECURSIVE ConvertTimestamps_abort(_, _)
\* The loop with `break` in place of `continue` in the except branch
ConvertTimestamps_abort(items, i) ==
    IF i > Len(items) THEN items
    ELSE LET key == items[i].key
             value == items[i].value
         IN IF ~key.isStr THEN ConvertTimestamps_abort(items, i + 1)
            ELSE IF IsDateKey(key)
            THEN IF Convertible(value)
                 THEN ConvertTimestamps_abort(
                          [items EXCEPT ![i].value = StrValue(Strftime(value.num))],
                          i + 1)
                 ELSE items
            ELSE ConvertTimestamps_abort(items, i + 1)

RECURSIVE ConvertTimestamps(_, _)
\* The loop `for key, value in info.items()` from item i on: the mapping at
\* its end.  A field whose conversion raises is logged and left as it is.
ConvertTimestamps(items, i) ==
    IF i > Len(items) THEN items
    ELSE LET key == items[i].key
             value == items[i].value
         IN IF ~key.isStr THEN ConvertTimestamps(items, i + 1)
            ELSE IF IsDateKey(key)
            THEN IF Convertible(value)
                 THEN ConvertTimestamps(
                          [items EXCEPT ![i].value = StrValue(Strftime(value.num))],
                          i + 1)
                 ELSE ConvertTimestamps(items, i + 1)
            ELSE ConvertTimestamps(items, i + 1)

\* json.dumps(info, ensure_ascii=False): an object, every key as text
JsonObject(items) ==
    [kind |-> "json_object",
     items |-> [i \in 1..Len(items) |->
                   [key |-> items[i].key.chars, value |-> items[i].value]]]

InfoOutcomes == {ProviderRaises} \cup {ProviderData(m) : m \in InfoMaps}

get_ticker_info(symbol) ==
    /\ Idle
    /\ tool' = "get_ticker_info"
    /\ args' = [NoArgs EXCEPT !.symbol = symbol]
    /\ \E outcome \in InfoOutcomes :
        LET issued == <<Call("Ticker.info", symbol, outcome)>> IN
        /\ source' = outcome
        /\ IF outcome.kind = "raise"
           THEN Finish(Raise(issued)) /\ info' = <<>>
           ELSE /\ info' = ConvertTimestamps(outcome.rows, 1)
                /\ Finish(Return(JsonObject(info'), issued))
    /\ UNCHANGED <<start_dt, end_dt, history, results, idx>>

---------------------------------------------------------------------------
(* get_ticker_news, search, get_price_history *)

\* What the provider may answer these three with
Articles == {<<>>, <<"article 1">>, <<"article 1", "article 2">>}
SearchResults == {[quotes |-> <<"AAPL">>, news |-> <<"article 1">>],
                  [quotes |-> <<>>, news |-> <<>>]}
SearchTypes == {"all", "quotes", "news", "Quotes", "ALL", "nav"}

\* search_type.lower()
LowerWord(w) ==
    CASE w = "Quotes" -> "quotes"
      [] w = "ALL" -> "all"
      [] OTHER -> w

get_ticker_news(symbol) ==
    /\ Idle
    /\ tool' = "get_ticker_news"
    /\ args' = [NoArgs EXCEPT !.symbol = symbol]
    /\ NoLocals
    /\ \E outcome \in {ProviderRaises} \cup {ProviderData(a) : a \in Articles} :
        LET issued == <<Call("Ticker.get_news", symbol, outcome)>> IN
        /\ source' = outcome
        /\ IF outcome.kind = "raise" THEN Finish(Raise(issued))
           ELSE Finish(Return([kind |-> "str", text |-> outcome.rows], issued))

search(query, search_type) ==
    /\ Idle
    /\ tool' = "search"
    /\ args' = [NoArgs EXCEPT !.symbol = query, !.search_type = search_type]
    /\ NoLocals
    /\ \E outcome \in {ProviderRaises} \cup {ProviderData(s) : s \in SearchResults} :
        LET issued == <<Call("Search", query, outcome)>>
            s == outcome.rows
            lowered == LowerWord(search_type)
        IN
        /\ source' = outcome
        /\ IF outcome.kind = "raise" THEN Finish(Raise(issued))
           ELSE CASE lowered = "all" ->
                       Finish(Return([kind |-> "json_value", value |-> s], issued))
                  [] lowered = "quotes" ->
                       Finish(Return([kind |-> "json_value", value |-> s.quotes], issued))
                  [] lowered = "news" ->
                       Finish(Return([kind |-> "json_value", value |-> s.news], issued))
                  [] OTHER ->
                       Finish(Return(Str(<<"Invalid output_type. Use 'all', 'quotes', or 'news'.">>),
                                     issued))

get_price_history(symbol) ==
    /\ Idle
    /\ tool' = "get_price_history"
    /\ args' = [NoArgs EXCEPT !.symbol = symbol]
    /\ NoLocals
    /\ \E outcome \in {ProviderRaises}
                      \cup {ProviderData(ProviderHistory(m, 1, MaxDay + 1)) :
                               m \in Markets(symbol)} :
        LET issued == <<Call("Ticker.history", symbol, outcome)>> IN
        /\ source' = outcome
        /\ IF outcome.kind = "raise" THEN Finish(Raise(issued))
           ELSE Finish(Return([kind |-> "markdown", rows |-> outcome.rows], issued))

---------------------------------------------------------------------------
(* The server *)

Init ==
    /\ pc = "idle"
    /\ tool = ""
    /\ args = NoArgs
    /\ ret = RetNone
    /\ raised = FALSE
    /\ calls = <<>>
    /\ source = <<>>
    /\ info = <<>>
    /\ start_dt = 0
    /\ end_dt = 0
    /\ history = <<>>
    /\ results = <<>>
    /\ idx = 0

\* mcp.run(): the finished invocation's outcome goes back to the caller, its
\* locals are dropped, and the server waits for the next tool call
mcp_run ==
    /\ pc = "done"
    /\ pc' = "idle"
    /\ tool' = ""
    /\ args' = NoArgs
    /\ ret' = RetNone
    /\ raised' = FALSE
    /\ calls' = <<>>
    /\ source' = <<>>
    /\ NoLocals

Next ==
    \/ mcp_run
    \/ \E symbol \in Symbols : get_ticker_info(symbol)
    \/ \E symbol \in Symbols : get_ticker_news(symbol)
    \/ \E query \in Symbols, search_type \in SearchTypes : search(query, search_type)
    \/ \E symbol \in Symbols : get_price_history(symbol)
    \/ \E sector \in Sectors, top_type \in TopTypes, top_n \in TopNs :
           get_top(sector, top_type, top_n)
    \/ get_top_growth_companies
    \/ \E symbol \in Symbols, start_date \in DateStrings, end_date \in DateStrings :
           calculate_profit_loss(symbol, start_date, end_date)
    \/ pl_parse
    \/ pl_range
    \/ pl_fetch
    \/ pl_empty
    \/ pl_compute
    \/ get_top_performing_companies

Spec == Init /\ [][Next]_vars

---------------------------------------------------------------------------
(* Properties *)

Done(name) == pc = "done" /\ tool = name
Resolvers == {"top_etfs", "top_mutual_funds", "top_companies",
              "top_growth_companies", "top_performing_companies"}
Grouped == {"top_growth_companies", "top_performing_companies"}
IsErrorObject(value) == value.kind = "json" /\ "error" \in DOMAIN value

\* The first n rows of a provider list, or all of it when it is shorter
FirstN(rows, n) == SubSeq(rows, 1, IF n < Len(rows) THEN n ELSE Len(rows))

\* The "SYMBOL: Name" text of a list of entities
FundText(rows) == JoinNL([i \in 1..Len(rows) |-> <<rows[i].symbol, ": ", rows[i].name>>])

RECURSIVE ExpectedEntries(_, _, _, _)
\* The entries a grouped ranking owes for the industries answered so far:
\* one per industry that yielded a table, in visiting order, cut to n rows
ExpectedEntries(industries, outcomes, key, n) ==
    IF outcomes = <<>> THEN <<>>
    ELSE LET k == Len(outcomes)
             before == ExpectedEntries(industries, SubSeq(outcomes, 1, k - 1), key, n)
         IN IF outcomes[k].kind = "data"
            THEN Append(before, [industry |-> industries[k], key |-> key,
                                 data |-> JsonRecords(FirstN(outcomes[k].rows, n))])
            ELSE before

\* C1: for every sector and every top_n <= 0, each of the five resolvers,
\* reached through get_top, returns exactly "top_n must be greater than 0",
\* whatever the provider would have answered.
C1_NonPositiveTopN ==
    (Done("get_top") /\ args.top_type \in Resolvers /\ args.top_n <= 0)
        => (ret = Str(<<"top_n must be greater than 0">>) /\ ~raised)

C1_Witness ==
    /\ Done("get_top")
    /\ args.top_type = "top_etfs"
    /\ args.top_n = 0
    /\ source = ProviderRaises
    /\ ret = Str(<<"top_n must be greater than 0">>)

\* C2 (as claimed): for every resolver and every provider list of A entities,
\* top_n >= 1 yields exactly the first min(top_n, A) entities in provider
\* order; top_etfs and top_mutual_funds emit at most top_n lines.
C2_TruncatesEveryResolver ==
    (Done("get_top") /\ args.top_type \in Resolvers /\ args.top_n >= 1 /\ ~raised)
        => CASE args.top_type \in {"top_etfs", "top_mutual_funds"} ->
                  /\ ret = Str(FundText(FirstN(source.rows, args.top_n)))
                  /\ LineCount(ret.text) <= args.top_n
             [] args.top_type = "top_companies" ->
                  source.kind = "data"
                      => ret = JsonRecords(FirstN(source.rows, args.top_n))
             [] OTHER ->
                  ret = JsonList(ExpectedEntries(SECTOR_INDUSTY_MAPPING(args.sector),
                                                 source, args.top_type, args.top_n))

\* C3: for every symbol and every pair of parseable dates with
\* start_date >= end_date, calculate_profit_loss returns the range error
\* and issues no provider call.
C3_RangeError ==
    (tool = "calculate_profit_loss"
        /\ fromisoformat(args.start_date).ok /\ fromisoformat(args.end_date).ok
        /\ fromisoformat(args.start_date).day >= fromisoformat(args.end_date).day)
        => /\ calls = <<>>
           /\ ~raised
           /\ pc = "done" =>
                ret = JsonError(<<"start_date must be earlier than end_date">>)

C3_Witness ==
    /\ Done("calculate_profit_loss")
    /\ args.symbol = "BOGUS"
    /\ args.start_date = "2024-01-02T00:00:00"
    /\ args.end_date = "2024-01-02"
    /\ ret = JsonError(<<"start_date must be earlier than end_date">>)
    /\ calls = <<>>

\* C4: calculate_profit_loss applies its checks in order and returns every
\* failed check as a JSON error object, never raising it: a date that does
\* not parse gives the format error and nothing else is evaluated; else a
\* start not before the end gives the range error; only then is the provider
\* queried, once; an empty series gives the guidance error and no price is
\* read.
C4_CheckOrder ==
    tool = "calculate_profit_loss" =>
        LET s == fromisoformat(args.start_date)
            e == fromisoformat(args.end_date)
            parsed == s.ok /\ e.ok
            offending == IF ~s.ok THEN args.start_date ELSE args.end_date
        IN /\ ~parsed =>
                /\ pc \in {"pl_parse", "done"}
                /\ calls = <<>> /\ history = <<>> /\ end_dt = 0
                /\ ~s.ok => start_dt = 0
                /\ pc = "done" =>
                     /\ ~raised
                     /\ IsErrorObject(ret)
                     /\ ret.error = <<"Invalid date format: ",
                                      "Invalid isoformat string: '", offending, "'">>
           /\ (parsed /\ s.day >= e.day) =>
                /\ pc \in {"pl_parse", "pl_range", "done"}
                /\ calls = <<>> /\ history = <<>>
                /\ pc = "done" => (~raised /\ IsErrorObject(ret) /\ ret = RangeError)
           /\ (parsed /\ s.day < e.day) =>
                /\ pc \in {"pl_parse", "pl_range", "pl_fetch"} => calls = <<>>
                /\ pc \in {"pl_empty", "pl_compute", "done"} => Len(calls) = 1
           /\ (pc = "done" /\ calls # <<>> /\ ~calls[1].raised /\ history = <<>>) =>
                (~raised /\ IsErrorObject(ret) /\ ret = NoDataError)
           /\ raised => (pc = "done" /\ Len(calls) = 1 /\ calls[1].raised)

C4_Witness ==
    /\ Done("calculate_profit_loss")
    /\ args.symbol = "ACME"
    /\ Len(calls) = 1
    /\ history = <<>>
    /\ ret = NoDataError
    /\ \E d \in 1..MaxDay : source[d] # NoBar

\* C5: for every non-empty series, start_price is the close of the first bar
\* in time order, end_price the close of the last (whatever their dates, and
\* for a single bar too), profit_loss is end_price - start_price, and the two
\* date strings are echoed verbatim.
C5_FirstAndLastClose ==
    (Done("calculate_profit_loss") /\ ~raised /\ history # <<>>) =>
        LET days == {history[i].day : i \in 1..Len(history)}
            first == CHOOSE i \in 1..Len(history) : \A d \in days : history[i].day <= d
            last == CHOOSE i \in 1..Len(history) : \A d \in days : history[i].day >= d
        IN /\ ~IsErrorObject(ret)
           /\ ret.start_price = history[first].Close
           /\ ret.end_price = history[last].Close
           /\ ret.profit_loss = ret.end_price - ret.start_price
           /\ ret.start_date = args.start_date
           /\ ret.end_date = args.end_date
           /\ ret.symbol = args.symbol

C5_Witness ==
    /\ Done("calculate_profit_loss")
    /\ args.start_date = "2024-01-01"
    /\ args.end_date = "2024-01-03"
    /\ history = <<[day |-> 2, Close |-> 1200]>>
    /\ ~IsErrorObject(ret)
    /\ ret.start_price = 1200 /\ ret.end_price = 1200 /\ ret.profit_loss = 0

\* C6: percent_change is profit_loss / start_price * 100 whenever
\* start_price is not 0 and null exactly when it is 0; in that case the
\* prices and profit_loss are still reported and nothing is raised.
C6_PercentChange ==
    (Done("calculate_profit_loss") /\ ~raised /\ history # <<>>) =>
        /\ ~IsErrorObject(ret)
        /\ ret.start_price = history[1].Close
        /\ ret.percent_change.isNone <=> ret.start_price = 0
        /\ ret.start_price # 0 =>
             /\ ret.percent_change.den > 0
             /\ ret.percent_change.num * ret.start_price
                    = ret.profit_loss * 100 * ret.percent_change.den
        /\ ret.start_price = 0 =>
             /\ ret.end_price = history[Len(history)].Close
             /\ ret.profit_loss = ret.end_price

C6_Witness ==
    /\ Done("calculate_profit_loss")
    /\ ~raised
    /\ history # <<>>
    /\ ~IsErrorObject(ret)
    /\ ret.start_price = 0
    /\ ret.end_price = 1200
    /\ ret.profit_loss = 1200
    /\ ret.percent_change.isNone

\* C7: with a provider whose range end is exclusive, the fetched series
\* holds every daily bar dated from start_date through end_date and no bar
\* dated after end_date, so a bar dated end_date gives end_price.
C7_InclusiveRange ==
    (tool = "calculate_profit_loss" /\ pc \in {"pl_empty", "pl_compute", "done"}
        /\ calls # <<>> /\ ~calls[1].raised) =>
        /\ \A d \in 1..MaxDay :
             (source[d] # NoBar /\ start_dt <= d /\ d <= end_dt)
                 <=> (\E i \in 1..Len(history) :
                         history[i] = [day |-> d, Close |-> source[d]])
        /\ \A i \in 1..Len(history) : history[i].day \in start_dt..end_dt
        /\ (pc = "done" /\ source[end_dt] # NoBar) =>
               (~raised /\ ~IsErrorObject(ret) /\ ret.end_price = source[end_dt])

C7_Witness ==
    /\ Done("calculate_profit_loss")
    /\ args.end_date = "2024-01-03"
    /\ calls # <<>> /\ ~calls[1].raised
    /\ source[3] = 1200
    /\ source[4] = 1000
    /\ source[2] = 0
    /\ ~IsErrorObject(ret)
    /\ ret.end_price = 1200

\* C8: get_ticker_info rewrites every str key ending (lowercased) in a date
\* suffix whose value is a valid epoch number to the formatted date-time,
\* keeps the value of such a key when it cannot be converted, leaves every
\* other key alone, keeps the key set, and a failed conversion neither aborts
\* the record nor stops later fields from being converted.
C8_TimestampFields ==
    (Done("get_ticker_info") /\ source.kind = "data") =>
        /\ ~raised
        /\ Len(info) = Len(source.rows)
        /\ \A i \in 1..Len(info) :
             LET key == source.rows[i].key
                 value == source.rows[i].value
                 lowered == Lower(key.chars)
                 dateLike == key.isStr /\ \E suffix \in DateSuffixes :
                                 EndsWith(lowered, suffix)
                 epoch == value.type = "int" /\ value.text = <<>>
             IN /\ info[i].key = key
                /\ (dateLike /\ epoch) =>
                     info[i].value = [type |-> "str", num |-> 0,
                                      text |-> Strftime(value.num)]
                /\ ~(dateLike /\ epoch) => info[i].value = value
        /\ ret.kind = "json_object"
        /\ \A i \in 1..Len(info) : ret.items[i].value = info[i].value

C8_Witness ==
    /\ Done("get_ticker_info")
    /\ Len(info) = 2
    /\ info[1].key = StrKey(<<"S", "T", "A", "R", "T">>)
    /\ info[1].value = NoneValue
    /\ info[2].key = StrKey(<<"t", "r", "e", "n", "d">>)
    /\ source.rows[2].value = IntValue(1700000000)
    /\ info[2].value = StrValue(<<"2023", "-", "11", "-", "14", " ",
                                  "22", ":", "13", ":", "20">>)

\* C9: only get_top_companies turns a provider failure into a returned JSON
\* error object: for top_n >= 1 it always returns (an error object when the
\* sector query raises or yields no table, else the first top_n rows) and
\* never raises; on every other path a provider exception propagates and the
\* invocation returns nothing.
C9_OnlyTopCompaniesCatches ==
    /\ (Done("get_top") /\ args.top_type = "top_companies" /\ args.top_n >= 1) =>
         /\ ~raised
         /\ ret # RetNone
         /\ source.kind \in {"raise", "none"} => IsErrorObject(ret)
         /\ source.kind = "data" =>
              ret = JsonRecords(FirstN(source.rows, args.top_n))
    /\ (pc = "done" /\ calls # <<>> /\ calls[Len(calls)].raised
            /\ ~(tool = "get_top" /\ args.top_type = "top_companies")) =>
         (raised /\ ret = RetNone)

C9_Witness ==
    /\ Done("get_top")
    /\ args.top_type = "top_companies"
    /\ args.top_n = 2
    /\ source = ProviderRaises
    /\ ~raised
    /\ IsErrorObject(ret)

\* C10: for top_n >= 1 a grouped ranking visits the sector's industries one
\* at a time in mapping order with one provider call each; when no call
\* raises, its list holds one entry per industry that yielded a table, in
\* visiting order, each cut to top_n rows (none for an industry without a
\* table); when a call raises, no later industry is queried and no partial
\* list is returned.
C10_GroupedRanking ==
    (tool = "get_top" /\ args.top_type \in Grouped /\ args.top_n >= 1
        /\ pc # "idle") =>
        LET industries == SECTOR_INDUSTY_MAPPING(args.sector)
            key == args.top_type
        IN /\ Len(calls) <= Len(industries)
           /\ Len(source) = Len(calls)
           /\ \A i \in 1..Len(calls) :
                /\ calls[i].api = "Industry." \o key
                /\ calls[i].arg = industries[i]
                /\ calls[i].raised = (source[i].kind = "raise")
                /\ calls[i].raised => (i = Len(calls) /\ raised)
           /\ results = ExpectedEntries(industries,
                            IF raised THEN SubSeq(source, 1, Len(source) - 1) ELSE source,
                            key, args.top_n)
           /\ raised => (pc = "done" /\ ret = RetNone /\ calls[Len(calls)].raised)
           /\ (pc = "done" /\ ~raised) =>
                /\ Len(calls) = Len(industries)
                /\ ret = JsonList(ExpectedEntries(industries, source, key, args.top_n))
                /\ \A i \in 1..Len(ret.items) :
                     Len(ret.items[i].data.rows) <= args.top_n

C10_Witness ==
    /\ Done("get_top")
    /\ args.top_type = "top_growth_companies"
    /\ args.sector = "technology"
    /\ args.top_n = 1
    /\ ~raised
    /\ Len(source) = 3
    /\ source[1] = ProviderNone
    /\ Len(source[2].rows) = 3
    /\ source[3] = ProviderData(<<>>)
    /\ ret = JsonList(<<[industry |-> "semiconductors", key |-> "top_growth_companies",
                         data |-> JsonRecords(<<Entity(1)>>)],
                        [industry |-> "consumer-electronics",
                         key |-> "top_growth_companies",
                         data |-> JsonRecords(<<>>)]>>)

====
